---------------------------- MODULE Spec2Model ----------------------------
(***************************************************************************)
(* A model of rs_tesseract_lib: the process-wide engine location           *)
(* (lib.rs TESSERACT, an RwLock<TesseractPath>), the image-format check,    *)
(* the run_tesseract pipeline with its three entry points, and the          *)
(* box-file parser.                                                         *)
(*                                                                         *)
(* A Rust String is a sequence of one-character strings, so that split,     *)
(* contains, replace, lines and parse are computed character by character.  *)
(***************************************************************************)
EXTENDS Integers, Sequences, FiniteSets, TLC

VARIABLES
    fmt_path, fmt_result,                  \* check_image_format on its own
    box_input, box_result,                 \* the box-file parse on its own
    cell, writer, readers, wpc, widx, rpc, ridx, rbuf, reads,
                                           \* TESSERACT under its RwLock
    entry, image, args,                    \* the call and its arguments
    location, nsets,                       \* TESSERACT.path and the sets so far
    pass, pc, cur_args, image_arg,         \* the position inside the call
    str_res, fs, events, rets, result, outcome
                                           \* files, history, results

fmtVars  == <<fmt_path, fmt_result>>
boxVars  == <<box_input, box_result>>
lockVars == <<cell, writer, readers, wpc, widx, rpc, ridx, rbuf, reads>>
pipeVars == <<entry, image, args, location, nsets, pass, pc, cur_args,
              image_arg, str_res, fs, events, rets, result, outcome>>
vars     == <<fmtVars, boxVars, lockVars, pipeVars>>

-----------------------------------------------------------------------------
(* Bounds of the model.                                                    *)

MaxPathLen == 5
MaxBoxLen == 7
MaxReaders == 2
MaxSets == 2

-----------------------------------------------------------------------------
(* Strings.                                                                *)

EmptyStr == << >>

Letters == <<"a","b","c","d","e","f","g","h","i","j","k","l","m",
             "n","o","p","q","r","s","t","u","v","w","x","y","z">>
Capitals == <<"A","B","C","D","E","F","G","H","I","J","K","L","M",
              "N","O","P","Q","R","S","T","U","V","W","X","Y","Z">>

IndexIn(c, tbl) ==
    IF \E i \in 1..Len(tbl) : tbl[i] = c
    THEN CHOOSE i \in 1..Len(tbl) : tbl[i] = c
    ELSE 0

UpperChar(c) == IF IndexIn(c, Letters) > 0 THEN Capitals[IndexIn(c, Letters)] ELSE c
LowerChar(c) == IF IndexIn(c, Capitals) > 0 THEN Letters[IndexIn(c, Capitals)] ELSE c

ToUppercase(s) == [i \in 1..Len(s) |-> UpperChar(s[i])]
ToLowercase(s) == [i \in 1..Len(s) |-> LowerChar(s[i])]

\* pat occurs in s starting at index i
MatchAt(s, pat, i) ==
    /\ i >= 1
    /\ i + Len(pat) - 1 <= Len(s)
    /\ \A k \in 1..Len(pat) : s[i + k - 1] = pat[k]

\* str::contains
StrContains(s, pat) == \E i \in 1..(Len(s) + 1) : MatchAt(s, pat, i)

\* str::split(sep) for a one-character separator: the pieces between the
\* separators, empty pieces kept; a string without the separator is one piece.
RECURSIVE SplitFrom(_, _, _, _)
SplitFrom(s, sep, i, piece) ==
    IF i > Len(s) THEN <<piece>>
    ELSE IF s[i] = sep THEN <<piece>> \o SplitFrom(s, sep, i + 1, << >>)
    ELSE SplitFrom(s, sep, i + 1, Append(piece, s[i]))

StrSplit(s, sep) == SplitFrom(s, sep, 1, << >>)

\* str::replace(c, ""): every occurrence of the character removed
StrRemoveChar(s, c) == SelectSeq(s, LAMBDA x : x # c)

SeqLast(q) == q[Len(q)]

-----------------------------------------------------------------------------
(* check_image_format.                                                     *)

FORMATS == << <<"J","P","E","G">>, <<"J","P","G">>, <<"P","N","G">>,
              <<"P","B","M">>, <<"P","G","M">>, <<"P","P","M">>,
              <<"T","I","F","F">>, <<"B","M","P">>, <<"G","I","F">>,
              <<"W","E","B","P">> >>

FormatsContains(f) == \E i \in 1..Len(FORMATS) : FORMATS[i] = f

check_image_format(path) ==
    LET splits == StrSplit(path, ".")
        format0 == SeqLast(splits)
        uppercase_format == ToUppercase(format0)
        format == ToLowercase(format0)
    IN  FormatsContains(format) \/ FormatsContains(uppercase_format)

-----------------------------------------------------------------------------
(* Numbers as text: i32::to_string and str::parse::<i32>.                  *)

Digits == <<"0","1","2","3","4","5","6","7","8","9">>

I32Max == 2147483647
I32Min == (-2147483647) - 1

IsDigit(c) == IndexIn(c, Digits) > 0
DigitVal(c) == IndexIn(c, Digits) - 1

\* Option<T> and Result<T, E> as a sequence: empty for None or Err
None == << >>
Some(x) == <<x>>
IsSome(o) == Len(o) = 1
Unwrap(o) == o[1]

\* The digits of s from index i on, accumulated as Rust accumulates them with
\* checked_mul and checked_add (checked_sub for a negative number): any
\* character that is no digit, and any step leaving the i32 range, is an error.
RECURSIVE ParseDigits(_, _, _, _)
ParseDigits(s, i, acc, neg) ==
    IF i > Len(s) THEN Some(acc)
    ELSE IF ~IsDigit(s[i]) THEN None
    ELSE LET d == DigitVal(s[i]) IN
         IF neg
         THEN IF acc < -(I32Max \div 10) \/ (acc = -(I32Max \div 10) /\ d > (I32Max % 10) + 1)
              THEN None
              ELSE ParseDigits(s, i + 1, acc * 10 - d, neg)
         ELSE IF acc > I32Max \div 10 \/ (acc = I32Max \div 10 /\ d > I32Max % 10)
              THEN None
              ELSE ParseDigits(s, i + 1, acc * 10 + d, neg)

\* str::parse::<i32>: an optional single sign, then at least one digit.
ParseI32(s) ==
    IF Len(s) = 0 THEN None
    ELSE IF s[1] = "-" \/ s[1] = "+"
         THEN IF Len(s) = 1 THEN None
              ELSE ParseDigits(s, 2, 0, s[1] = "-")
         ELSE ParseDigits(s, 1, 0, FALSE)

RECURSIVE NatToString(_)
NatToString(n) ==
    IF n < 10 THEN <<Digits[n + 1]>>
    ELSE Append(NatToString(n \div 10), Digits[(n % 10) + 1])

\* i32::to_string (I32Min itself has no positive counterpart and is not used)
I32ToString(n) == IF n < 0 THEN <<"-">> \o NatToString(-n) ELSE NatToString(n)

-----------------------------------------------------------------------------
(* The box-file parse of run_tesseract.                                    *)

\* str::lines: pieces ended by "\n", a last piece without one kept when it is
\* not empty; each piece loses its "\n" and then one "\r" before it.
StripCr(l) == IF Len(l) > 0 /\ l[Len(l)] = "\r" THEN SubSeq(l, 1, Len(l) - 1) ELSE l

RECURSIVE LinesFrom(_, _, _)
LinesFrom(s, i, piece) ==
    IF i > Len(s) THEN (IF Len(piece) > 0 THEN <<StripCr(piece)>> ELSE << >>)
    ELSE IF s[i] = "\n" THEN <<StripCr(piece)>> \o LinesFrom(s, i + 1, << >>)
    ELSE LinesFrom(s, i + 1, Append(piece, s[i]))

StrLines(s) == LinesFrom(s, 1, << >>)

\* str::split_once(" ") of a line that contains a space
RECURSIVE SplitOnceFrom(_, _)
SplitOnceFrom(l, i) ==
    IF l[i] = " " THEN <<SubSeq(l, 1, i - 1), SubSeq(l, i + 1, Len(l))>>
    ELSE SplitOnceFrom(l, i + 1)

SplitOnce(l) == SplitOnceFrom(l, 1)

\* MultiMap: a map from key to the vector of its values
EmptyMultiMap == << >>

MultiMapInsertOverwrite(m, k, v) ==
    [x \in (DOMAIN m) \cup {k} |-> IF x = k THEN <<v>> ELSE m[x]]

\* MultiMap::insert: a key already present gains the value at the end of its vector
MultiMapInsert(m, k, v) ==
    [x \in (DOMAIN m) \cup {k} |->
        IF x = k THEN (IF k \in DOMAIN m THEN Append(m[k], v) ELSE <<v>>)
        ELSE m[x]]

\* Series::new(name, values)
Series(name, values) == [name |-> name, values |-> values]

\* num.parse::<i32>().unwrap() over tuple.1.split(" "): Some of the integers,
\* or None when an unwrap panics
RECURSIVE ParseNums(_, _)
ParseNums(toks, i) ==
    IF i > Len(toks) THEN Some(<< >>)
    ELSE LET n == ParseI32(toks[i])
             rest == ParseNums(toks, i + 1)
         IN  IF ~IsSome(n) \/ ~IsSome(rest) THEN None
             ELSE Some(<<Unwrap(n)>> \o Unwrap(rest))

BoxPanic == [panic |-> TRUE, dict |-> EmptyMultiMap, df |-> << >>]

\* for line in file_output.lines() { if line.contains(" ") { ... } }
RECURSIVE ParseBoxLines(_, _, _, _)
ParseBoxLines(ls, i, dict, df) ==
    IF i > Len(ls) THEN [panic |-> FALSE, dict |-> dict, df |-> df]
    ELSE IF ~StrContains(ls[i], <<" ">>) THEN ParseBoxLines(ls, i + 1, dict, df)
    ELSE LET tuple == SplitOnce(ls[i])
             box_boundaries == ParseNums(StrSplit(tuple[2], " "), 1)
         IN  IF ~IsSome(box_boundaries) THEN BoxPanic
             ELSE ParseBoxLines(ls, i + 1,
                                MultiMapInsert(dict, tuple[1], tuple[2]),
                                Append(df, Series(tuple[1], Unwrap(box_boundaries))))

ParseBox(file_output) == ParseBoxLines(StrLines(file_output), 1, EmptyMultiMap, << >>)

-----------------------------------------------------------------------------
(* The parts of the state a specification does not use stay as they are.   *)

FmtIdle == fmt_path = EmptyStr /\ fmt_result = None
BoxIdle == box_input = EmptyStr /\ box_result = None

LockIdle ==
    /\ cell = << >> /\ writer = None /\ readers = {}
    /\ wpc = << >> /\ widx = << >> /\ rpc = << >> /\ ridx = << >> /\ rbuf = << >>
    /\ reads = {}

PipeIdle ==
    /\ entry = "" /\ image = << >> /\ args = << >>
    /\ location = None /\ nsets = 0
    /\ pass = 0 /\ pc = "" /\ cur_args = << >> /\ image_arg = EmptyStr
    /\ str_res = EmptyStr /\ fs = << >> /\ events = << >> /\ rets = << >>
    /\ result = None /\ outcome = << >>

SeqsUpTo(A, n) == UNION {[1..k -> A] : k \in 0..n}

-----------------------------------------------------------------------------
(* check_image_format applied to bounded paths.                            *)

FmtAlphabet == {"p", "n", "g", "G", ".", "x"}

FmtCrafted ==
    { <<"a",".","j","p","e","g">>, <<"a",".","J","P","G">>, <<"a",".","P","b","m">>,
      <<"a",".","p","g","m">>, <<"a",".","p","p","m">>, <<"a",".","T","i","f","f">>,
      <<"a",".","b","m","p">>, <<"a",".","b",".","g","i","f">>,
      <<"a",".","w","e","b","p">>, <<"t","i","f","f">>, <<"J","P","E","G">>,
      <<"a",".","t","x","t">>, <<"a",".","p","n","g","s">>, <<"a",".","t","i","f">>,
      <<"d","i","r",".","p","n","g","/","f">> }

FmtPaths == SeqsUpTo(FmtAlphabet, MaxPathLen) \cup FmtCrafted

InitFormat ==
    /\ fmt_path \in FmtPaths
    /\ fmt_result = None
    /\ BoxIdle /\ LockIdle /\ PipeIdle

CheckFormat ==
    /\ fmt_result = None
    /\ fmt_result' = Some(check_image_format(fmt_path))
    /\ UNCHANGED <<fmt_path, boxVars, lockVars, pipeVars>>

NextFormat == CheckFormat

SpecFormat == InitFormat /\ [][NextFormat]_vars

-----------------------------------------------------------------------------
(* The box-file parse applied to bounded artifacts.                        *)

BoxAlphabet == {"A", "B", "1", " ", "\n"}

BoxCrafted ==
    { <<"A"," ","1","0"," ","2","0"," ","3","0"," ","4","0","\n",
        "B"," ","1","1"," ","2","1"," ","3","1"," ","4","1">>,
      <<"A"," ","1"," ","2","\n","x","x","\n","A"," ","3"," ","4","\n","B"," ","-","5">>,
      <<"A"," ","1","\r","\n","B"," ","+","2","\r","\n">>,
      <<"A"," ","2","1","4","7","4","8","3","6","4","7">>,
      <<"A"," ","2","1","4","7","4","8","3","6","4","8">>,
      <<"A"," ","-","2","1","4","7","4","8","3","6","4","8">>,
      <<"A"," ","-","2","1","4","7","4","8","3","6","4","9">>,
      <<"A"," ","1"," "," ","2">>,
      <<"A"," ","1","."," ","5">>,
      <<"h","e","l","l","o"," ","w","o","r","l","d">> }

BoxInputs == SeqsUpTo(BoxAlphabet, MaxBoxLen) \cup BoxCrafted

InitBox ==
    /\ box_input \in BoxInputs
    /\ box_result = None
    /\ FmtIdle /\ LockIdle /\ PipeIdle

ParseBoxFile ==
    /\ box_result = None
    /\ box_result' = Some(ParseBox(box_input))
    /\ UNCHANGED <<box_input, fmtVars, lockVars, pipeVars>>

NextBox == ParseBoxFile

SpecBox == InitBox /\ [][NextBox]_vars

-----------------------------------------------------------------------------
(* TESSERACT: RwLock<TesseractPath>, with two writers and some readers.    *)
(* The path field is an Option<String> of PathWords machine words, written *)
(* and read one word at a time; the lock is what makes a write or a read    *)
(* whole.  A word is tagged with the value it belongs to.                   *)

PathWords == 3

LocUnset == "unset"
LocA == "a"
LocB == "b"

Writers == {"wa", "wb"}
WriterValue(w) == IF w = "wa" THEN LocA ELSE LocB
Readers == 1..MaxReaders

WordsOf(v) == [i \in 1..PathWords |-> v]

\* TESSERACT.read(): granted while no writer holds the lock
CanReadUnlocked == TRUE

CanRead == writer = None

\* TESSERACT.write(): granted while nobody holds the lock
CanWrite == writer = None /\ readers = {}

InitLock ==
    /\ cell = WordsOf(LocUnset)
    /\ writer = None
    /\ readers = {}
    /\ wpc = [w \in Writers |-> "start"]
    /\ widx = [w \in Writers |-> 1]
    /\ rpc = [r \in Readers |-> "start"]
    /\ ridx = [r \in Readers |-> 1]
    /\ rbuf = [r \in Readers |-> << >>]
    /\ reads = {}
    /\ FmtIdle /\ BoxIdle /\ PipeIdle

\* set_tesseract_installed_path: let t = TESSERACT.write()
WriteLock(w) ==
    /\ wpc[w] = "start"
    /\ CanWrite
    /\ writer' = Some(w)
    /\ wpc' = [wpc EXCEPT ![w] = "writing"]
    /\ widx' = [widx EXCEPT ![w] = 1]
    /\ UNCHANGED <<cell, readers, rpc, ridx, rbuf, reads, fmtVars, boxVars, pipeVars>>

\* set_tesseract_path: self.path = Some(s), one word of it
WriteWord(w) ==
    /\ wpc[w] = "writing"
    /\ widx[w] <= PathWords
    /\ cell' = [cell EXCEPT ![widx[w]] = WriterValue(w)]
    /\ widx' = [widx EXCEPT ![w] = widx[w] + 1]
    /\ UNCHANGED <<writer, readers, wpc, rpc, ridx, rbuf, reads, fmtVars, boxVars, pipeVars>>

\* the write guard is dropped when set_tesseract_installed_path returns
WriteUnlock(w) ==
    /\ wpc[w] = "writing"
    /\ widx[w] > PathWords
    /\ writer' = (IF writer = Some(w) THEN None ELSE writer)
    /\ wpc' = [wpc EXCEPT ![w] = "done"]
    /\ UNCHANGED <<cell, readers, widx, rpc, ridx, rbuf, reads, fmtVars, boxVars, pipeVars>>

\* get_tesseract_installed_path: match TESSERACT.read() { Ok(t) => ...
ReadLock(r) ==
    /\ rpc[r] = "start"
    /\ CanRead
    /\ readers' = readers \cup {r}
    /\ rpc' = [rpc EXCEPT ![r] = "reading"]
    /\ ridx' = [ridx EXCEPT ![r] = 1]
    /\ rbuf' = [rbuf EXCEPT ![r] = << >>]
    /\ UNCHANGED <<cell, writer, wpc, widx, reads, fmtVars, boxVars, pipeVars>>

\* t.path.clone(), one word of it
ReadWord(r) ==
    /\ rpc[r] = "reading"
    /\ ridx[r] <= PathWords
    /\ rbuf' = [rbuf EXCEPT ![r] = Append(rbuf[r], cell[ridx[r]])]
    /\ ridx' = [ridx EXCEPT ![r] = ridx[r] + 1]
    /\ UNCHANGED <<cell, writer, readers, wpc, widx, rpc, reads, fmtVars, boxVars, pipeVars>>

\* return t.path.clone(): the read guard is dropped, the caller has the value;
\* the reader may call again
ReadReturn(r) ==
    /\ rpc[r] = "reading"
    /\ ridx[r] > PathWords
    /\ readers' = readers \ {r}
    /\ reads' = reads \cup {rbuf[r]}
    /\ rpc' = [rpc EXCEPT ![r] = "start"]
    /\ UNCHANGED <<cell, writer, wpc, widx, ridx, rbuf, fmtVars, boxVars, pipeVars>>

NextLock ==
    \/ \E w \in Writers : WriteLock(w)
    \/ \E w \in Writers : WriteWord(w)
    \/ \E w \in Writers : WriteUnlock(w)
    \/ \E r \in Readers : ReadLock(r)
    \/ \E r \in Readers : ReadWord(r)
    \/ \E r \in Readers : ReadReturn(r)

SpecLock == InitLock /\ [][NextLock]_vars

-----------------------------------------------------------------------------
(* The pipeline: image_to_string, image_to_boxes, image_to_data and         *)
(* run_tesseract, with set_tesseract_installed_path called at any time by   *)
(* other threads.                                                          *)

Str_l == <<"-","l">>
Str_dpi == <<"-","-","d","p","i">>
Str_psm == <<"-","-","p","s","m">>
Str_oem == <<"-","-","o","e","m">>
Str_c == <<"-","c">>
Key_psm == <<"p","s","m">>
Key_oem == <<"o","e","m">>
Str_3 == <<"3">>
Str_6 == <<"6">>
Str_1 == <<"1">>
Str_makebox == <<"m","a","k","e","b","o","x">>
Str_tsv0 == <<"t","e","s","s","e","d","i","t","_","c","r","e","a","t","e","_","t","s","v","=","0">>
Str_tsv1 == <<"t","e","s","s","e","d","i","t","_","c","r","e","a","t","e","_","t","s","v","=","1">>
Str_hocr == <<"h","o","c","r","=","1">>
Ext_txt == <<".","t","x","t">>
Ext_box == <<".","b","o","x">>
Str_eng == <<"e","n","g">>
Str_out == <<"o","u","t">>
ConvertedName == <<"n","d","a","r","r","a","y","_","c","o","n","v","e","r","t","e","d",".","p","n","g">>

\* the environment: the working directory, the programs that can be started,
\* and the locations callers set
WorkingDir == <<"/","w">>
TessPath == <<"t","e","s","s">>
AltPath == <<"a","l","t">>
BadPath == <<"n","o","p","e">>
Executables == {TessPath, AltPath}
Locations == {TessPath, AltPath, BadPath}

\* ModelOutput::new()
ModelOutputNew ==
    [output_info |-> EmptyStr, output_bytes |-> << >>, output_dict |-> EmptyMultiMap,
     output_string |-> EmptyStr, output_dataframe |-> << >>]

\* str::as_bytes of the characters the model uses
ByteOf(c) ==
    IF IndexIn(c, Letters) > 0 THEN 96 + IndexIn(c, Letters)
    ELSE IF IndexIn(c, Capitals) > 0 THEN 64 + IndexIn(c, Capitals)
    ELSE IF IndexIn(c, Digits) > 0 THEN 47 + IndexIn(c, Digits)
    ELSE IF c = "\n" THEN 10
    ELSE IF c = "\r" THEN 13
    ELSE IF c = " " THEN 32
    ELSE IF c = "+" THEN 43
    ELSE IF c = "-" THEN 45
    ELSE 46

AsBytes(s) == [i \in 1..Len(s) |-> ByteOf(s[i])]

\* Image::is_empty_ndarray: no element at all
is_empty_ndarray(img) == img.ndarray[1] * img.ndarray[2] * img.ndarray[3] = 0

\* Image::ndarray_to_image: RgbImage::from_raw(width, height, raw) is Some when
\* raw holds at least width * height * 3 bytes; expect panics otherwise
CanConvert(img) ==
    img.ndarray[1] * img.ndarray[2] * img.ndarray[3] >= img.ndarray[2] * img.ndarray[1] * 3

\* run_tesseract, "check if image path or ndarray is provided": which branch
ImageBranchNoNotFound(img) ==
    IF Len(img.path) = 0 /\ ~is_empty_ndarray(img) THEN "convert" ELSE "path"

ImageBranch(img) ==
    IF Len(img.path) = 0 /\ ~is_empty_ndarray(img) THEN "convert"
    ELSE IF Len(img.path) = 0 /\ is_empty_ndarray(img) THEN "notfound"
    ELSE "path"

\* [working_dir, String::from("ndarray_converted.png")].join("/")
NewPath == WorkingDir \o <<"/">> \o ConvertedName

\* image_arg after a save: the new path when the save succeeded, and the
\* initial empty string when it failed
SavedImageArgAlways(saved) == NewPath

SavedImageArg(saved) == IF saved THEN NewPath ELSE EmptyStr

ConfigGet(a, key, default) ==
    IF key \in DOMAIN a.config THEN a.config[key] ELSE default

\* the arguments of the recognition command, in the order of the .arg calls
BuildArgsSwapped(img_arg, a) ==
    << img_arg, a.out_filename, Str_l, a.lang, Str_dpi, I32ToString(a.dpi),
       Str_psm, ConfigGet(a, Key_oem, Str_3), Str_oem, ConfigGet(a, Key_psm, Str_3),
       Str_c, ConfigGet(a, Str_c, Str_tsv0),
       IF a.boxfile THEN Str_makebox ELSE EmptyStr >>

BuildArgs(img_arg, a) ==
    LET boxarg == IF a.boxfile THEN Str_makebox ELSE EmptyStr
        tesstable_arg == ConfigGet(a, Str_c, Str_tsv0)
        psm == ConfigGet(a, Key_psm, Str_3)
        oem == ConfigGet(a, Key_oem, Str_3)
    IN  << img_arg, a.out_filename, Str_l, a.lang, Str_dpi, I32ToString(a.dpi),
           Str_psm, psm, Str_oem, oem, Str_c, tesstable_arg, boxarg >>

\* the name of the file run_tesseract reads after the child has exited
OutFileName(a) ==
    IF ~a.boxfile
    THEN IF ~StrContains(a.out_filename, Ext_txt)
         THEN a.out_filename \o Ext_txt
         ELSE a.out_filename
    ELSE IF ~StrContains(a.out_filename, Ext_box)
         THEN a.out_filename \o Ext_box
         ELSE a.out_filename

\* str_res: "\n" and the line, for every line of stdout, or of stderr when
\* stdout is empty
RECURSIVE JoinLines(_, _)
JoinLines(ls, i) ==
    IF i > Len(ls) THEN EmptyStr
    ELSE <<"\n">> \o ls[i] \o JoinLines(ls, i + 1)

StreamsToInfo(out, err) ==
    IF Len(out) = 0 THEN JoinLines(StrLines(err), 1) ELSE JoinLines(StrLines(out), 1)

\* TesseractPath::set_tesseract_path: self.path = Some(s)
set_tesseract_path_or_clear(s) == IF s \in Executables THEN Some(s) ELSE None

set_tesseract_path(s) == Some(s)

\* get_tesseract_installed_path: t.path.clone() under the read lock.  The lock
\* is never poisoned (nothing panics while the write guard is held), so the
\* Err arm is not reached.
get_tesseract_installed_path == location

\* what image_to_string and image_to_boxes return for a run_tesseract result
OrNew(r) == IF IsSome(r) THEN Unwrap(r) ELSE ModelOutputNew

\* image_to_data: the plain string, info and bytes of the text pass with the
\* mapping and columns of the box pass
Merge(str_out, box_out) ==
    [output_info |-> str_out.output_info, output_bytes |-> str_out.output_bytes,
     output_dict |-> box_out.output_dict, output_string |-> str_out.output_string,
     output_dataframe |-> box_out.output_dataframe]

\* image_to_data: box_args, then tesstable_args
BoxArgs(a) == [a EXCEPT !.boxfile = TRUE]

TesstableArgs(a) ==
    [a EXCEPT !.config = [k \in (DOMAIN a.config) \cup {Str_c} |->
                             IF k = Str_c THEN Str_tsv1 ELSE a.config[k]]]

\* The engine, a black box: it leaves its streams and may write its artifact,
\* <stem>.txt, or <stem>.box when asked for makebox.
Text_hello == <<"h","i"," ","y","o","\n">>
Text_boxes == <<"A"," ","1"," ","2","\n","A"," ","3"," ","4","\n">>
Text_png == <<"P","N","G">>

EngineBehaviours ==
    { [write |-> FALSE, content |-> EmptyStr, stdout |-> EmptyStr,
       stderr |-> <<"E","r","r","\n">>],
      [write |-> TRUE, content |-> Text_hello, stdout |-> <<"o","k","\n">>,
       stderr |-> EmptyStr],
      [write |-> TRUE, content |-> Text_boxes, stdout |-> EmptyStr,
       stderr |-> <<"T","\n","d","p","i","\n">>] }

EngineArtifact(argv) ==
    argv[2] \o (IF argv[Len(argv)] = Str_makebox THEN Ext_box ELSE Ext_txt)

FsWrite(f, name, content) ==
    [n \in (DOMAIN f) \cup {name} |-> IF n = name THEN content ELSE f[n]]

\* the callers' inputs
Entries == {"image_to_string", "image_to_boxes", "image_to_data"}

Images ==
    { [path |-> EmptyStr, ndarray |-> <<0, 0, 0>>],
      [path |-> EmptyStr, ndarray |-> <<1, 1, 3>>],
      [path |-> EmptyStr, ndarray |-> <<1, 1, 1>>],
      [path |-> <<"a",".","p","n","g">>, ndarray |-> <<2, 2, 3>>],
      [path |-> <<"\"","a","\"",".","P","N","G">>, ndarray |-> <<0, 0, 0>>],
      [path |-> <<"p","n","g">>, ndarray |-> <<0, 0, 0>>],
      [path |-> <<"a",".","t","x","t">>, ndarray |-> <<0, 0, 0>>] }

Stems ==
    { Str_out, <<"a",".","t","x","t">>, <<"a",".","t","x","t",".","b">>,
      <<"a",".","b","o","x">> }

Configs ==
    { << >>,
      [k \in {Key_psm, Key_oem} |-> IF k = Key_psm THEN Str_6 ELSE Str_1],
      [k \in {Key_psm, Str_c} |-> IF k = Key_psm THEN Str_6 ELSE Str_hocr] }

\* Args::new() has "out", "eng" and 150; the other stems and a second dpi vary it
ArgsSet ==
    { [out_filename |-> s, lang |-> Str_eng, config |-> c, dpi |-> 150, boxfile |-> b] :
        s \in Stems, c \in Configs, b \in BOOLEAN }
    \cup
    { [out_filename |-> Str_out, lang |-> Str_eng, config |-> c, dpi |-> 70, boxfile |-> b] :
        c \in Configs, b \in BOOLEAN }

InitPipe ==
    /\ entry \in Entries
    /\ image \in Images
    /\ args \in ArgsSet
    /\ location = None
    /\ nsets = 0
    /\ pass = 0
    /\ pc = "idle"
    /\ cur_args = args
    /\ image_arg = EmptyStr
    /\ str_res = EmptyStr
    /\ fs = << >>
    /\ events = << >>
    /\ rets = << >>
    /\ result = None
    /\ outcome = << >>
    /\ FmtIdle /\ BoxIdle /\ LockIdle

\* run_tesseract returns ret (its outcome oc is kept for the record): what the
\* entry point does next
Finish(ret, oc) ==
    /\ rets' = Append(rets, ret)
    /\ outcome' = Append(outcome, oc)
    /\ image_arg' = EmptyStr
    /\ str_res' = EmptyStr
    /\ IF entry # "image_to_data"
       THEN /\ result' = Some(OrNew(ret))
            /\ pc' = "done"
            /\ UNCHANGED <<pass, cur_args>>
       ELSE IF pass = 1
       THEN /\ pass' = 2
            /\ cur_args' = BoxArgs(args)
            /\ pc' = "probe"
            /\ UNCHANGED result
       ELSE IF pass = 2
       THEN /\ pass' = 3
            /\ cur_args' = TesstableArgs(args)
            /\ pc' = "probe"
            /\ UNCHANGED result
       ELSE /\ result' = Some(IF check_image_format(image.path)
                              THEN Merge(OrNew(rets[1]), OrNew(rets[2]))
                              ELSE ModelOutputNew)
            /\ pc' = "done"
            /\ UNCHANGED <<pass, cur_args>>

\* an unwrap or expect fails: the call unwinds
Panic(why) ==
    /\ pc' = "panic"
    /\ outcome' = Append(outcome, why)
    /\ UNCHANGED <<pass, cur_args, image_arg, str_res, rets, result>>

\* set_tesseract_installed_path(s), by any thread at any time
SetInstalledPath(s) ==
    /\ nsets < MaxSets
    /\ nsets' = nsets + 1
    /\ location' = set_tesseract_path(s)
    /\ UNCHANGED <<entry, image, args, pass, pc, cur_args, image_arg, str_res, fs,
                   events, rets, result, outcome, fmtVars, boxVars, lockVars>>

\* the entry point is called and calls run_tesseract(&image, &args)
Call ==
    /\ pc = "idle"
    /\ pass' = 1
    /\ pc' = "probe"
    /\ cur_args' = args
    /\ UNCHANGED <<entry, image, args, location, nsets, image_arg, str_res, fs,
                   events, rets, result, outcome, fmtVars, boxVars, lockVars>>

\* run_tesseract: let is_installed = check_if_installed(); if !is_installed ...
CheckIfInstalled ==
    /\ pc = "probe"
    /\ LET p == get_tesseract_installed_path
       IN  IF IsSome(p) /\ Unwrap(p) \in Executables
           THEN /\ events' = Append(events, [kind |-> "probe", run |-> pass,
                                             program |-> Unwrap(p)])
                /\ pc' = "image"
                /\ UNCHANGED <<pass, cur_args, image_arg, str_res, rets, result, outcome>>
           ELSE /\ Finish(None, "NotInstalled")
                /\ UNCHANGED events
    /\ UNCHANGED <<entry, image, args, location, nsets, fs, fmtVars, boxVars, lockVars>>

\* run_tesseract: the image argument
ResolveImage ==
    /\ pc = "image"
    /\ LET branch == ImageBranch(image)
       IN  IF branch = "convert"
           THEN IF ~CanConvert(image)
                THEN /\ Panic("Couldnt convert ndarray to RgbImage.")
                     /\ UNCHANGED <<fs, events>>
                ELSE \E saved \in BOOLEAN :
                        /\ image_arg' = SavedImageArg(saved)
                        /\ fs' = IF saved THEN FsWrite(fs, NewPath, Text_png) ELSE fs
                        /\ events' = IF saved
                                     THEN Append(events, [kind |-> "write", run |-> pass,
                                                          name |-> NewPath])
                                     ELSE events
                        /\ pc' = "spawn"
                        /\ UNCHANGED <<pass, cur_args, str_res, rets, result, outcome>>
           ELSE IF branch = "notfound"
           THEN /\ Finish(None, "ImageNotFound")
                /\ UNCHANGED <<fs, events>>
           ELSE IF ~check_image_format(image.path)
                THEN /\ Finish(None, "ImageFormat")
                     /\ UNCHANGED <<fs, events>>
                ELSE /\ image_arg' = StrRemoveChar(image.path, "\"")
                     /\ pc' = "spawn"
                     /\ UNCHANGED <<pass, cur_args, str_res, rets, result, outcome,
                                    fs, events>>
    /\ UNCHANGED <<entry, image, args, location, nsets, fmtVars, boxVars, lockVars>>

\* run_tesseract: the command is built, spawned and waited for
SpawnEngine ==
    /\ pc = "spawn"
    /\ LET tess_path == get_tesseract_installed_path
       IN  IF ~IsSome(tess_path)
           THEN /\ Panic("unwrap on None: location")
                /\ UNCHANGED <<fs, events>>
           ELSE IF Unwrap(tess_path) \notin Executables
           THEN /\ Panic("unwrap on Err: spawn")
                /\ UNCHANGED <<fs, events>>
           ELSE \E b \in EngineBehaviours :
                   LET argv == BuildArgs(image_arg, cur_args)
                   IN  /\ events' = Append(events, [kind |-> "engine", run |-> pass,
                                                    program |-> Unwrap(tess_path),
                                                    args |-> cur_args,
                                                    image_arg |-> image_arg,
                                                    argv |-> argv])
                       /\ fs' = IF b.write
                                THEN FsWrite(fs, EngineArtifact(argv), b.content)
                                ELSE fs
                       /\ str_res' = StreamsToInfo(b.stdout, b.stderr)
                       /\ pc' = "read"
                       /\ UNCHANGED <<pass, cur_args, image_arg, rets, result, outcome>>
    /\ UNCHANGED <<entry, image, args, location, nsets, fmtVars, boxVars, lockVars>>

\* run_tesseract: the output file is read and parsed
ReadOutput ==
    /\ pc = "read"
    /\ LET out_f == OutFileName(cur_args)
       IN  /\ events' = Append(events, [kind |-> "read", run |-> pass, args |-> cur_args,
                                           name |-> out_f])
           /\ IF out_f \notin DOMAIN fs
              THEN Panic("File reading error. Filename does not exist.")
              ELSE LET file_output == fs[out_f]
                       parsed == IF cur_args.boxfile
                                 THEN ParseBox(file_output)
                                 ELSE [panic |-> FALSE, dict |-> EmptyMultiMap, df |-> << >>]
                   IN  IF parsed.panic
                       THEN Panic("unwrap on Err: ParseIntError")
                       ELSE Finish(Some([output_info |-> str_res,
                                         output_bytes |-> AsBytes(file_output),
                                         output_dict |-> parsed.dict,
                                         output_string |-> file_output,
                                         output_dataframe |-> parsed.df]), "Ok")
    /\ UNCHANGED <<entry, image, args, location, nsets, fs, fmtVars, boxVars, lockVars>>

Next ==
    \/ \E s \in Locations : SetInstalledPath(s)
    \/ Call
    \/ CheckIfInstalled
    \/ ResolveImage
    \/ SpawnEngine
    \/ ReadOutput

Spec == InitPipe /\ [][Next]_vars

-----------------------------------------------------------------------------
(* Claims about the engine location under its lock.                        *)

WholeValues == {WordsOf(LocUnset), WordsOf(LocA), WordsOf(LocB)}

WritersDone == \A w \in Writers : wpc[w] = "done"

\* C4: with two concurrent writers of a and b and any readers, every value a
\* read returns is the unset value, a or b in whole, never a mix, and once
\* both writers have finished the stored location is a or b.
C4_NoTornRead ==
    /\ \A v \in reads : v \in WholeValues
    /\ WritersDone => cell \in {WordsOf(LocA), WordsOf(LocB)}

\* Both writers have finished and the readers have seen all three values.
C4_Witness == WritersDone /\ reads = WholeValues

-----------------------------------------------------------------------------
(* Claims about check_image_format.                                        *)

ClaimFormats ==
    { <<"j","p","e","g">>, <<"j","p","g">>, <<"p","n","g">>, <<"p","b","m">>,
      <<"p","g","m">>, <<"p","p","m">>, <<"t","i","f","f">>, <<"b","m","p">>,
      <<"g","i","f">>, <<"w","e","b","p">> }

HasDot(path) == \E i \in 1..Len(path) : path[i] = "."

LastDot(path) ==
    CHOOSE i \in 1..Len(path) :
        path[i] = "." /\ \A j \in (i + 1)..Len(path) : path[j] # "."

\* the text after the last "." of a path that has one
Extension(path) == SubSeq(path, LastDot(path) + 1, Len(path))

\* C5: check_image_format returns true exactly when the path has an extension
\* (the text after its last ".") that matches one of the ten formats ignoring
\* case, and false for every path without a ".", a bare format word included.
C5_TrueIffRecognizedExtension ==
    IsSome(fmt_result) =>
        (Unwrap(fmt_result) <=>
            (HasDot(fmt_path) /\ ToLowercase(Extension(fmt_path)) \in ClaimFormats))

-----------------------------------------------------------------------------
(* Claims about the box-file parse.                                        *)

HasSpace(l) == \E i \in 1..Len(l) : l[i] = " "

FirstSpace(l) ==
    CHOOSE i \in 1..Len(l) : l[i] = " " /\ \A j \in 1..(i - 1) : l[j] # " "

KeyOf(l) == SubSeq(l, 1, FirstSpace(l) - 1)
RestOf(l) == SubSeq(l, FirstSpace(l) + 1, Len(l))

SpaceLines(s) == SelectSeq(StrLines(s), HasSpace)

TokensOf(l) == StrSplit(RestOf(l), " ")

AllTokensInteger(s) ==
    \A i \in 1..Len(SpaceLines(s)) :
        \A j \in 1..Len(TokensOf(SpaceLines(s)[i])) :
            IsSome(ParseI32(TokensOf(SpaceLines(s)[i])[j]))

\* the rest strings of the lines with key k, in line order
RestsOfKey(sl, k) ==
    LET mine == SelectSeq(sl, LAMBDA l : KeyOf(l) = k)
    IN  [i \in 1..Len(mine) |-> RestOf(mine[i])]

\* C7: in box mode, when every line with a space has integer coordinate
\* tokens, the parse yields one column per such line, in line order, named by
\* the text before the first space and holding the integers after it, and a
\* mapping whose value list for a key is the rest strings of that key's lines in
\* line order; lines without a space add nothing.
C7_BoxParse ==
    (IsSome(box_result) /\ AllTokensInteger(box_input)) =>
        LET r == Unwrap(box_result)
            sl == SpaceLines(box_input)
        IN  /\ ~r.panic
            /\ Len(r.df) = Len(sl)
            /\ \A i \in 1..Len(sl) :
                   /\ r.df[i].name = KeyOf(sl[i])
                   /\ r.df[i].values =
                          [j \in 1..Len(TokensOf(sl[i])) |-> Unwrap(ParseI32(TokensOf(sl[i])[j]))]
            /\ DOMAIN r.dict = {KeyOf(sl[i]) : i \in 1..Len(sl)}
            /\ \A k \in DOMAIN r.dict : r.dict[k] = RestsOfKey(sl, k)

\* A parsed artifact with a repeated character, a second character and a line
\* without a space.
C7_Witness ==
    /\ IsSome(box_result)
    /\ AllTokensInteger(box_input)
    /\ ~Unwrap(box_result).panic
    /\ \E k \in DOMAIN Unwrap(box_result).dict : Len(Unwrap(box_result).dict[k]) = 2
    /\ Cardinality(DOMAIN Unwrap(box_result).dict) = 2
    /\ Len(StrLines(box_input)) > Len(Unwrap(box_result).df)

-----------------------------------------------------------------------------
(* Claims about the pipeline.  events is the history of the call: the       *)
(* children started (probe, engine), the image file written (write) and the *)
(* artifact read (read), each with the run_tesseract invocation it is of.   *)

EventsOfKind(k) == {i \in 1..Len(events) : events[i].kind = k}
EventsOfRun(k, r) == {i \in EventsOfKind(k) : events[i].run = r}

EmptyImage == pc # "" /\ Len(image.path) = 0 /\ is_empty_ndarray(image)
BufferOnly == pc # "" /\ Len(image.path) = 0 /\ ~is_empty_ndarray(image)

Returned == pc = "done"

\* C1 as stated: with an empty path and an empty buffer the call ends with
\* ImageNotFound and an empty result, and no child process is ever spawned,
\* the install probe counted.
C1_NoChildAtAll ==
    EmptyImage =>
        /\ EventsOfKind("probe") = {}
        /\ EventsOfKind("engine") = {}
        /\ Returned =>
               /\ result = Some(ModelOutputNew)
               /\ \A i \in 1..Len(outcome) : outcome[i] = "ImageNotFound"

\* C1 amended: with an empty path and an empty buffer the call ends with an
\* empty result and never panics; no recognition process is spawned, no file
\* is written or read; each run_tesseract invocation starts at most one child,
\* the install probe, and ends as ImageNotFound exactly when that probe was
\* started and as not installed otherwise.
C1_NoRecognitionChild ==
    EmptyImage =>
        /\ \A i \in 1..Len(events) : events[i].kind = "probe"
        /\ fs = << >>
        /\ pc # "panic"
        /\ \A r \in 1..Len(outcome) :
               /\ outcome[r] \in {"ImageNotFound", "NotInstalled"}
               /\ Cardinality(EventsOfRun("probe", r)) <= 1
               /\ outcome[r] = "ImageNotFound" <=> EventsOfRun("probe", r) # {}
        /\ Returned => result = Some(ModelOutputNew)

\* image_to_data on an empty image has returned; one of its run_tesseract
\* invocations ended as ImageNotFound and another as not installed.
C1_Witness ==
    /\ EmptyImage
    /\ Returned
    /\ entry = "image_to_data"
    /\ \E i, j \in 1..Len(outcome) :
           outcome[i] = "ImageNotFound" /\ outcome[j] = "NotInstalled"

\* C2: the argument list handed to the engine is, in this order: image
\* argument, output stem, -l, language, --dpi, dpi, --psm, psm, --oem, oem, -c,
\* tesstable flag, mode token; psm, oem and the flag come from the keys "psm",
\* "oem" and "-c" of the config when present and are "3", "3" and
\* "tessedit_create_tsv=0" otherwise; the mode token is makebox in box mode and
\* the empty token otherwise.
C2_ArgumentOrder ==
    \A i \in EventsOfKind("engine") :
        LET a == events[i].args
            argv == events[i].argv
        IN  /\ Len(argv) = 13
            /\ argv[1] = events[i].image_arg
            /\ argv[2] = a.out_filename
            /\ argv[3] = <<"-","l">>
            /\ argv[4] = a.lang
            /\ argv[5] = <<"-","-","d","p","i">>
            /\ ParseI32(argv[6]) = Some(a.dpi)
            /\ a.dpi = 150 => argv[6] = <<"1","5","0">>
            /\ argv[7] = <<"-","-","p","s","m">>
            /\ argv[8] = (IF Key_psm \in DOMAIN a.config THEN a.config[Key_psm] ELSE <<"3">>)
            /\ argv[9] = <<"-","-","o","e","m">>
            /\ argv[10] = (IF Key_oem \in DOMAIN a.config THEN a.config[Key_oem] ELSE <<"3">>)
            /\ argv[11] = <<"-","c">>
            /\ argv[12] = (IF Str_c \in DOMAIN a.config THEN a.config[Str_c] ELSE Str_tsv0)
            /\ argv[13] = (IF a.boxfile THEN Str_makebox ELSE << >>)

\* The engine was started in box mode with psm and oem taken from the config
\* and the flag left at its default.
C2_Witness ==
    \E i \in EventsOfKind("engine") :
        /\ events[i].args.boxfile
        /\ Key_psm \in DOMAIN events[i].args.config
        /\ Key_oem \in DOMAIN events[i].args.config
        /\ Str_c \notin DOMAIN events[i].args.config
        /\ events[i].argv[8] # events[i].argv[10]

\* C3: image_to_data returns the plain string of its text pass with the
\* mapping and columns of its box pass, for path-based and buffer-only images.
C3_DataMergesPasses ==
    (entry = "image_to_data" /\ Returned) =>
        /\ Unwrap(result).output_string = OrNew(rets[1]).output_string
        /\ Unwrap(result).output_dict = OrNew(rets[2]).output_dict
        /\ Unwrap(result).output_dataframe = OrNew(rets[2]).output_dataframe

\* the runs of run_tesseract that got past the install probe and the image step
PastImageStep(r) ==
    /\ EventsOfRun("probe", r) # {}
    /\ r < pass \/ pc \in {"spawn", "read", "done", "panic"}

\* C6 as stated: with an empty path and a non-empty buffer and the engine
\* installed, exactly one file named ndarray_converted.png is written in the
\* working directory, before the recognition spawn, and the engine's image
\* argument is the path of that file.
C6_ExactlyOneFileWritten ==
    BufferOnly =>
        \A r \in 1..pass :
            PastImageStep(r) =>
                /\ Cardinality(EventsOfRun("write", r)) = 1
                /\ \A w \in EventsOfRun("write", r) : events[w].name = NewPath
                /\ \A e \in EventsOfRun("engine", r) :
                       /\ \A w \in EventsOfRun("write", r) : w < e
                       /\ events[e].argv[1] = NewPath

\* C6 amended: with an empty path and a non-empty buffer, an invocation whose
\* buffer cannot be converted to an RGB image panics with nothing written and
\* nothing spawned; otherwise it writes at most one file, named
\* ndarray_converted.png in the working directory and only before the
\* recognition spawn; the engine's image argument is the path of that file when
\* the save succeeded and the empty string when it failed and nothing was
\* written.
C6_AtMostOneFileBeforeSpawn ==
    BufferOnly =>
        \A r \in 1..pass :
            /\ Cardinality(EventsOfRun("write", r)) <= 1
            /\ Cardinality(EventsOfRun("engine", r)) <= 1
            /\ \A w \in EventsOfRun("write", r) :
                   /\ events[w].name = NewPath
                   /\ NewPath \in DOMAIN fs
                   /\ EventsOfRun("probe", r) # {}
            /\ \A e \in EventsOfRun("engine", r) :
                   /\ \A w \in EventsOfRun("write", r) : w < e
                   /\ events[e].argv[1] =
                          (IF EventsOfRun("write", r) # {} THEN NewPath ELSE << >>)
            /\ ~CanConvert(image) =>
                   /\ EventsOfRun("write", r) = {}
                   /\ EventsOfRun("engine", r) = {}
                   /\ PastImageStep(r) => pc = "panic"

\* The buffer was saved and the engine then started on the saved file.
C6_Witness ==
    /\ BufferOnly
    /\ pc = "read"
    /\ \E w \in EventsOfRun("write", pass) : \E e \in EventsOfRun("engine", pass) :
           w < e /\ events[e].argv[1] = events[w].name

StrEndsWith(s, suffix) ==
    Len(s) >= Len(suffix) /\ SubSeq(s, Len(s) - Len(suffix) + 1, Len(s)) = suffix

\* C8: image_to_boxes runs the pipeline in box mode whatever the boxfile flag
\* of its configuration: the engine gets the makebox token, the .box artifact
\* is read, and the mapping and columns are filled from it.
C8_BoxesForcesBoxMode ==
    entry = "image_to_boxes" =>
        /\ \A e \in EventsOfKind("engine") : events[e].argv[13] = Str_makebox
        /\ \A i \in EventsOfKind("read") : StrEndsWith(events[i].name, Ext_box)
        /\ (Returned /\ IsSome(rets[1])) =>
               /\ Unwrap(result).output_dict = ParseBox(Unwrap(result).output_string).dict
               /\ Unwrap(result).output_dataframe = ParseBox(Unwrap(result).output_string).df

\* C9: the artifact read is the output stem itself when the stem ends with the
\* mode's extension and the stem followed by the extension in every other case.
C9_ArtifactName ==
    \A i \in EventsOfKind("read") :
        LET stem == events[i].args.out_filename
            ext == IF events[i].args.boxfile THEN <<".","b","o","x">> ELSE <<".","t","x","t">>
        IN  events[i].name = (IF StrEndsWith(stem, ext) THEN stem ELSE stem \o ext)

\* C10: once the location holds a value it never returns to unset, so the
\* second read of it in run_tesseract, after check_if_installed returned true,
\* yields a value and its unwrap does not fail, whatever other threads set in
\* between.
C10_LocationStaysSet ==
    /\ [][location # None => location' # None]_vars
    /\ [](\A i \in 1..Len(outcome) : outcome[i] # "unwrap on None: location")

\* Another thread changed the location between the probe and the spawn: the
\* second read yielded the new value, and the engine was started from it.
C10_Witness ==
    /\ pc = "read"
    /\ \E p \in EventsOfRun("probe", pass) : \E e \in EventsOfRun("engine", pass) :
           events[p].program # events[e].program

=============================================================================
